---- MODULE Spec2Model ----
(***************************************************************************)
(* Model of backend/open_webui/apps/webui/routers/files.py: the HTTP       *)
(* handlers for file upload, listing, retrieval, content update and        *)
(* deletion, over the three collaborators they call: the metadata registry *)
(* (Files), the blob storage (Storage) and the content processor           *)
(* (process_file).                                                         *)
(*                                                                         *)
(* Strings that the handlers build or take apart (declared filenames,      *)
(* identifiers, storage keys) are sequences of one-character strings, so   *)
(* os.path.basename and f"{id}_{filename}" are computed, not assumed.      *)
(*                                                                         *)
(* Scheduling: upload_file is a plain `def`, which FastAPI runs in a       *)
(* worker thread; every other handler is an `async def` without an await,  *)
(* so the event loop runs one of them at a time to completion.  Worker     *)
(* threads run in parallel with each other and with the event loop, so a   *)
(* step of an upload may fall between two collaborator calls of a loop     *)
(* handler.  Every collaborator call is one atomic step.                   *)
(***************************************************************************)
EXTENDS Naturals, Sequences, FiniteSets

\* Bound: how many uploads (uuid4 draws) one behaviour may start.
MaxUploads == 2

\* status codes the handlers name
HTTP_200_OK == 200
HTTP_400_BAD_REQUEST == 400
HTTP_401_UNAUTHORIZED == 401
HTTP_404_NOT_FOUND == 404
HTTP_500_INTERNAL_SERVER_ERROR == 500

\* Callers: two plain verified users and one admin.
Users == {"u1", "u2", "adm"}

Role(u) == IF u = "adm" THEN "admin" ELSE "user"

\* Worker threads that run upload_file.
Threads == {"t1"}

\* uuid4() values: strings of one fixed length (36 in the program, 1 here),
\* listed in the order in which the model hands them out.
IdOrder == <<<<"1">>, <<"2">>, <<"3">>>>
Ids == {IdOrder[i] : i \in 1..Len(IdOrder)}

\* Declared filenames a client may send: a plain name, the same name behind
\* directory components, and a name spelled like a storage key.
FileNames == {<<"a">>, <<".", "/", "a">>, <<"1", "_", "a">>}

\* The content of a record: none before the processor has run; the text the
\* processor derives from the blob; the replacement texts a client may send
\* to the update endpoint.
NoContent == "none"
Extracted == "text"
Contents == {"text"}

\* Failures process_file may raise: an HTTPException (has .detail), a plain
\* exception with a message, a plain exception raised without arguments.
ProcessErrors ==
    { [hasDetail |-> TRUE,  detail |-> "unsupported", text |-> "400: unsupported"],
      [hasDetail |-> FALSE, detail |-> "",            text |-> "crashed"],
      [hasDetail |-> FALSE, detail |-> "",            text |-> ""] }

NoError == [hasDetail |-> FALSE, detail |-> "none", text |-> "none"]

VARIABLES
    registry,   \* Files: the set of stored file records
    blobs,      \* Storage: the set of paths at which bytes are stored
    usedIds,    \* identifiers uuid4 has returned so far
    created,    \* history: identifier and path of every record inserted
    up,         \* up[t]: the upload running in worker thread t
    ev          \* the request the event loop is handling, or has last answered

vars == <<registry, blobs, usedIds, created, up, ev>>

----------------------------------------------------------------------------
\* Pure helpers of upload_file

Max(S) == CHOOSE x \in S : \A y \in S : y <= x

\* os.path.basename: what follows the last "/"
Basename(s) ==
    LET slashes == {i \in 1..Len(s) : s[i] = "/"}
    IN  IF slashes = {} THEN s ELSE SubSeq(s, Max(slashes) + 1, Len(s))

\* Variant of StorageName without the identifier prefix (sensitivity of C6).
StorageName_NoPrefix(id, name) == name

\* f"{id}_{filename}"
StorageName(id, name) == id \o <<"_">> \o name

\* uuid4(): an identifier never returned before (its collisions are taken
\* to be impossible).  The handlers use an identifier only as an opaque key
\* and as the prefix of the storage name, so which unused one is drawn is
\* fixed: the first of IdOrder not drawn yet.
FreshIds ==
    LET unused == {i \in 1..Len(IdOrder) : IdOrder[i] \notin usedIds}
    IN  IF unused = {} THEN {}
        ELSE {IdOrder[CHOOSE i \in unused : \A j \in unused : i <= j]}

\* Variant of ErrorMessage that ignores .detail (sensitivity of C3).
ErrorMessage_StrOnly(e) == e.text

\* str(process_error.detail) if hasattr(process_error, "detail") else str(process_error)
ErrorMessage(e) == IF e.hasDetail THEN e.detail ELSE e.text

\* Variant of Authorized without the ownership test (sensitivity of C1).
Authorized_AnyCaller(file, user) == file # {}

\* file and (file.user_id == user.id or user.role == "admin"), file an Optional
Authorized(file, user) ==
    /\ file # {}
    /\ \A f \in file : f.user_id = user \/ Role(user) = "admin"

----------------------------------------------------------------------------
\* Collaborators (not part of this router)

\* Files.get_file_by_id: the record, or None (the empty set)
FilesGet(id) == {f \in registry : f.id = id}

\* Files.get_files / Files.get_files_by_user_id
FilesAll == registry
FilesByUser(u) == {f \in registry : f.user_id = u}

\* Files.insert_new_file
FilesInserted(rec) == registry \cup {rec}

\* Files.delete_file_by_id / Files.delete_all_files, when they report success
FilesWithout(id) == {f \in registry : f.id # id}

\* process_file: stores the derived (or the replacement) content on the record
Processed(id, content) ==
    {IF f.id = id THEN [f EXCEPT !.content = content] ELSE f : f \in registry}

\* The directory (or bucket) the storage keeps its blobs in.
UploadDir == <<"u", "/">>

\* Storage.upload_file(file, filename): stores the bytes under filename,
\* returns the path it stored them at
StoragePath(name) == UploadDir \o name
StorageWith(name) == blobs \cup {StoragePath(name)}

\* Storage.delete_file(filename): removes what is stored under filename
StorageWithout(name) == blobs \ {StoragePath(name)}

\* Storage.get_file(path) followed by Path.is_file()
IsFile(path) == path \in blobs

----------------------------------------------------------------------------
IdleUpload ==
    [pc |-> "idle", user |-> "u1", id |-> <<>>, name |-> <<>>,
     filename |-> <<>>, path |-> <<>>, item |-> {}, failed |-> "none",
     raised |-> 0, status |-> 0, failure |-> NoError, annotated |-> FALSE,
     error |-> ""]

IdleEv ==
    [pc |-> "idle", op |-> "none", user |-> "u1", id |-> <<>>, file |-> {},
     calls |-> {}, result |-> "none", gone |-> {}, thrown |-> FALSE,
     status |-> 0, files |-> {}, content |-> NoContent]

Init ==
    /\ registry = {}
    /\ blobs = {}
    /\ usedIds = {}
    /\ created = {}
    /\ up = [t \in Threads |-> IdleUpload]
    /\ ev = IdleEv

----------------------------------------------------------------------------
\* A finished request stays in pc = "done" for one step, the sending of its
\* response, which is taken before any other step: sending reads and writes
\* nothing but the request's own slot, so it commutes with every step of the
\* other requests, and a "done" state shows the response together with the
\* registry and the storage as they are when the handler returns.
NoResponsePending == ev.pc # "done" /\ \A t \in Threads : up[t].pc # "done"

----------------------------------------------------------------------------
\* POST /  upload_file (runs in a worker thread)

\* except Exception as e: ... raise HTTPException(400): the outermost handler
\* of upload_file.  HTTPException is an Exception, so what the inner handlers
\* raise passes through here as well.
UploadOuterExcept(raised) == HTTP_400_BAD_REQUEST

UploadFailed(u, why, raised) ==
    [u EXCEPT !.pc = "done", !.failed = why, !.raised = raised,
              !.status = UploadOuterExcept(raised)]

\* basename, uuid4, f"{id}_{filename}", then Storage.upload_file
UploadStore(t, user, declared) ==
    /\ NoResponsePending
    /\ up[t].pc = "idle"
    /\ Cardinality(usedIds) < MaxUploads
    /\ \E id \in FreshIds :
         LET name == Basename(declared)
             filename == StorageName(id, name)
             u == [IdleUpload EXCEPT !.user = user, !.id = id, !.name = name,
                                     !.filename = filename]
         IN  /\ usedIds' = usedIds \cup {id}
             /\ \/ /\ blobs' = StorageWith(filename)
                   /\ up' = [up EXCEPT ![t] =
                               [u EXCEPT !.pc = "stored",
                                         !.path = StoragePath(filename)]]
                \/ /\ blobs' = blobs
                   /\ up' = [up EXCEPT ![t] =
                               UploadFailed(u, "storage",
                                            HTTP_500_INTERNAL_SERVER_ERROR)]
    /\ UNCHANGED <<registry, created, ev>>

\* file_form_data
FileFormData(u) ==
    [id |-> u.id, user_id |-> u.user, filename |-> u.name, path |-> u.path,
     content |-> NoContent]

\* Files.insert_new_file
UploadInsert(t) ==
    /\ NoResponsePending
    /\ up[t].pc = "stored"
    /\ \/ /\ registry' = FilesInserted(FileFormData(up[t]))
          /\ created' = created \cup {[id |-> up[t].id, path |-> up[t].path]}
          /\ up' = [up EXCEPT ![t].pc = "inserted",
                              ![t].item = {FileFormData(up[t])}]
       \/ /\ up' = [up EXCEPT ![t] =
                      UploadFailed(up[t], "insert",
                                   HTTP_500_INTERNAL_SERVER_ERROR)]
          /\ UNCHANGED <<registry, created>>
    /\ UNCHANGED <<blobs, usedIds, ev>>

\* the except branch of the processing step: the response is the inserted
\* item with an "error" entry, and nothing is written back
UploadAnnotated(u, e) ==
    [u EXCEPT !.pc = "done", !.failed = "process", !.failure = e,
              !.annotated = TRUE, !.error = ErrorMessage(e),
              !.status = HTTP_200_OK]

\* process_file(ProcessFileForm(file_id=id))
UploadProcess(t) ==
    /\ NoResponsePending
    /\ up[t].pc = "inserted"
    /\ \/ /\ FilesGet(up[t].id) # {}
          /\ registry' = Processed(up[t].id, Extracted)
          /\ up' = [up EXCEPT ![t].pc = "processed"]
       \/ /\ \E e \in ProcessErrors :
               up' = [up EXCEPT ![t] = UploadAnnotated(up[t], e)]
          /\ registry' = registry
    /\ UNCHANGED <<blobs, usedIds, created, ev>>

\* file_item = Files.get_file_by_id(id=id); if file_item: return file_item.
\* A None here fails in the log line, then again in the except branch's log
\* line, and leaves through the outermost handler.
UploadRefetch(t) ==
    /\ NoResponsePending
    /\ up[t].pc = "processed"
    /\ up' = [up EXCEPT ![t] =
                IF FilesGet(up[t].id) # {}
                THEN [up[t] EXCEPT !.pc = "done", !.item = FilesGet(up[t].id),
                                   !.status = HTTP_200_OK]
                ELSE UploadFailed([up[t] EXCEPT !.item = {}], "refetch", 0)]
    /\ UNCHANGED <<registry, blobs, usedIds, created, ev>>

----------------------------------------------------------------------------
\* Handlers the event loop runs, one request at a time

LoopFree == NoResponsePending /\ ev.pc = "idle"

Request(op, user, id) == [IdleEv EXCEPT !.op = op, !.user = user, !.id = id]

\* raise HTTPException(404, NOT_FOUND): the else branch of every {id} handler
NotFound(r) ==
    [r EXCEPT !.pc = "done", !.status = HTTP_404_NOT_FOUND,
              !.calls = {"Files.get_file_by_id"}]

\* Variant of ListFiles without the role test (sensitivity of C8).
ListFiles_Everything(user) ==
    /\ LoopFree
    /\ ev' = [Request("list", user, <<>>) EXCEPT
                !.pc = "done", !.status = HTTP_200_OK,
                !.calls = {"Files.get_files"}, !.files = FilesAll]
    /\ UNCHANGED <<registry, blobs, usedIds, created, up>>

\* GET /  list_files
ListFiles(user) ==
    /\ LoopFree
    /\ ev' = [Request("list", user, <<>>) EXCEPT
                !.pc = "done", !.status = HTTP_200_OK,
                !.calls = {"Files.get_files"},
                !.files = IF Role(user) = "admin" THEN FilesAll
                                                  ELSE FilesByUser(user)]
    /\ UNCHANGED <<registry, blobs, usedIds, created, up>>

\* DELETE /all  delete_all_files: get_admin_user, then Files.delete_all_files
DeleteAllFiles(user) ==
    /\ LoopFree
    /\ LET r == Request("delete_all", user, <<>>)
       IN  IF Role(user) # "admin"
           THEN /\ ev' = [r EXCEPT !.pc = "done",
                                   !.status = HTTP_401_UNAUTHORIZED]
                /\ registry' = registry
           ELSE \/ /\ registry' = {}
                   /\ ev' = [r EXCEPT !.pc = "all_deleted", !.result = "ok",
                                      !.calls = {"Files.delete_all_files"},
                                      !.gone = {f.id : f \in registry}]
                \/ /\ registry' = registry
                   /\ ev' = [r EXCEPT !.pc = "done", !.result = "failed",
                                      !.calls = {"Files.delete_all_files"},
                                      !.status = HTTP_400_BAD_REQUEST]
    /\ UNCHANGED <<blobs, usedIds, created, up>>

\* if result: Storage.delete_all_files()
DeleteAllBlobs ==
    /\ NoResponsePending
    /\ ev.pc = "all_deleted"
    /\ \/ /\ blobs' = {}
          /\ ev' = [ev EXCEPT !.pc = "done", !.status = HTTP_200_OK,
                              !.calls = @ \cup {"Storage.delete_all_files"}]
       \/ /\ blobs' = blobs
          /\ ev' = [ev EXCEPT !.pc = "done", !.status = HTTP_400_BAD_REQUEST,
                              !.thrown = TRUE,
                              !.calls = @ \cup {"Storage.delete_all_files"}]
    /\ UNCHANGED <<registry, usedIds, created, up>>

\* GET /{id}  get_file_by_id
GetFileById(user, id) ==
    /\ LoopFree
    /\ LET r == Request("get", user, id)
           file == FilesGet(id)
       IN  ev' = IF Authorized(file, user)
                 THEN [r EXCEPT !.pc = "done", !.status = HTTP_200_OK,
                                !.file = file, !.files = file,
                                !.calls = {"Files.get_file_by_id"}]
                 ELSE NotFound(r)
    /\ UNCHANGED <<registry, blobs, usedIds, created, up>>

\* file.data.get("content", "")
DataContent(file) == CHOOSE c \in {f.content : f \in file} : TRUE

\* GET /{id}/data/content  get_file_data_content_by_id
GetFileDataContentById(user, id) ==
    /\ LoopFree
    /\ LET r == Request("data_content", user, id)
           file == FilesGet(id)
       IN  ev' = IF Authorized(file, user)
                 THEN [r EXCEPT !.pc = "done", !.status = HTTP_200_OK,
                                !.file = file, !.content = DataContent(file),
                                !.calls = {"Files.get_file_by_id"}]
                 ELSE NotFound(r)
    /\ UNCHANGED <<registry, blobs, usedIds, created, up>>

\* POST /{id}/data/content/update  update_file_data_content_by_id:
\* process_file with the replacement content, the record fetched again; a
\* failure of process_file is logged and the content read before is returned
UpdateFileDataContentById(user, id, content) ==
    /\ LoopFree
    /\ LET r == Request("update", user, id)
           file == FilesGet(id)
       IN  IF Authorized(file, user)
           THEN \/ /\ registry' = Processed(id, content)
                   /\ ev' = [r EXCEPT !.pc = "done", !.status = HTTP_200_OK,
                                      !.file = file, !.content = content,
                                      !.calls = {"Files.get_file_by_id",
                                                 "process_file"}]
                \/ /\ registry' = registry
                   /\ ev' = [r EXCEPT !.pc = "done", !.status = HTTP_200_OK,
                                      !.file = file,
                                      !.content = DataContent(file),
                                      !.calls = {"Files.get_file_by_id",
                                                 "process_file"}]
           ELSE /\ registry' = registry
                /\ ev' = NotFound(r)
    /\ UNCHANGED <<blobs, usedIds, created, up>>

\* except Exception as e: ... raise HTTPException(400) around the body of
\* GET /{id}/content and GET /{id}/content/html: the 404 raised inside the
\* try for a missing file is an Exception too
ContentExcept(raised) == HTTP_400_BAD_REQUEST

PathOf(file) == CHOOSE p \in {f.path : f \in file} : TRUE

\* the authorized branch of GET /{id}/content and GET /{id}/content/html
Download(r, file) ==
    [r EXCEPT !.pc = "done", !.file = file,
              !.calls = {"Files.get_file_by_id", "Storage.get_file"},
              !.status = IF IsFile(PathOf(file))
                         THEN HTTP_200_OK
                         ELSE ContentExcept(HTTP_404_NOT_FOUND)]

\* GET /{id}/content  get_file_content_by_id
GetFileContentById(user, id) ==
    /\ LoopFree
    /\ LET r == Request("content", user, id)
           file == FilesGet(id)
       IN  ev' = IF Authorized(file, user) THEN Download(r, file)
                                           ELSE NotFound(r)
    /\ UNCHANGED <<registry, blobs, usedIds, created, up>>

\* GET /{id}/content/html  get_html_file_content_by_id
GetHtmlFileContentById(user, id) ==
    /\ LoopFree
    /\ LET r == Request("content_html", user, id)
           file == FilesGet(id)
       IN  ev' = IF Authorized(file, user) THEN Download(r, file)
                                           ELSE NotFound(r)
    /\ UNCHANGED <<registry, blobs, usedIds, created, up>>

\* GET /{id}/content/{file_name}: no try around the body; a record without
\* a path is answered from its inline content
GetFileContentByName(user, id) ==
    /\ LoopFree
    /\ LET r == Request("content_name", user, id)
           file == FilesGet(id)
       IN  ev' = IF ~Authorized(file, user) THEN NotFound(r)
                 ELSE IF PathOf(file) # <<>>
                 THEN [r EXCEPT !.pc = "done", !.file = file,
                                !.calls = {"Files.get_file_by_id",
                                           "Storage.get_file"},
                                !.status = IF IsFile(PathOf(file))
                                           THEN HTTP_200_OK
                                           ELSE HTTP_404_NOT_FOUND]
                 ELSE [r EXCEPT !.pc = "done", !.file = file,
                                !.calls = {"Files.get_file_by_id"},
                                !.content = DataContent(file),
                                !.status = HTTP_200_OK]
    /\ UNCHANGED <<registry, blobs, usedIds, created, up>>

\* DELETE /{id}  delete_file_by_id: the lookup and the ownership check
DeleteFileById(user, id) ==
    /\ LoopFree
    /\ LET r == Request("delete", user, id)
           file == FilesGet(id)
       IN  ev' = IF Authorized(file, user)
                 THEN [r EXCEPT !.pc = "checked", !.file = file,
                                !.calls = {"Files.get_file_by_id"}]
                 ELSE NotFound(r)
    /\ UNCHANGED <<registry, blobs, usedIds, created, up>>

\* Variant of DeleteRecord that goes on to the blob whatever the registry
\* reported (sensitivity of C7).
DeleteRecord_IgnoreResult ==
    /\ NoResponsePending
    /\ ev.pc = "checked"
    /\ \/ /\ registry' = FilesWithout(ev.id)
          /\ ev' = [ev EXCEPT !.pc = "deleted", !.gone = {ev.id},
                              !.result = "ok",
                              !.calls = @ \cup {"Files.delete_file_by_id"}]
       \/ /\ registry' = registry
          /\ ev' = [ev EXCEPT !.pc = "deleted", !.result = "failed",
                              !.calls = @ \cup {"Files.delete_file_by_id"}]
    /\ UNCHANGED <<blobs, usedIds, created, up>>

\* result = Files.delete_file_by_id(id); a false result is answered 400
DeleteRecord ==
    /\ NoResponsePending
    /\ ev.pc = "checked"
    /\ \/ /\ registry' = FilesWithout(ev.id)
          /\ ev' = [ev EXCEPT !.pc = "deleted", !.gone = {ev.id},
                              !.result = "ok",
                              !.calls = @ \cup {"Files.delete_file_by_id"}]
       \/ /\ registry' = registry
          /\ ev' = [ev EXCEPT !.pc = "done", !.status = HTTP_400_BAD_REQUEST,
                              !.result = "failed",
                              !.calls = @ \cup {"Files.delete_file_by_id"}]
    /\ UNCHANGED <<blobs, usedIds, created, up>>

\* the name delete_file_by_id hands to Storage.delete_file
DeletedName(file) == CHOOSE n \in {f.filename : f \in file} : TRUE

\* if result: Storage.delete_file(file.filename)
DeleteBlob ==
    /\ NoResponsePending
    /\ ev.pc = "deleted"
    /\ \/ /\ blobs' = StorageWithout(DeletedName(ev.file))
          /\ ev' = [ev EXCEPT !.pc = "done", !.status = HTTP_200_OK,
                              !.calls = @ \cup {"Storage.delete_file"}]
       \/ /\ blobs' = blobs
          /\ ev' = [ev EXCEPT !.pc = "done", !.status = HTTP_400_BAD_REQUEST,
                              !.thrown = TRUE,
                              !.calls = @ \cup {"Storage.delete_file"}]
    /\ UNCHANGED <<registry, usedIds, created, up>>

\* the response has been sent: the worker thread takes the next upload
UploadReturn(t) ==
    /\ up[t].pc = "done"
    /\ up' = [up EXCEPT ![t] = IdleUpload]
    /\ UNCHANGED <<registry, blobs, usedIds, created, ev>>

\* the response has been sent: the event loop takes the next request
LoopReturn ==
    /\ ev.pc = "done"
    /\ ev' = IdleEv
    /\ UNCHANGED <<registry, blobs, usedIds, created, up>>

----------------------------------------------------------------------------
Next ==
    \/ \E t \in Threads, u \in Users, d \in FileNames : UploadStore(t, u, d)
    \/ \E t \in Threads : UploadInsert(t)
    \/ \E t \in Threads : UploadProcess(t)
    \/ \E t \in Threads : UploadRefetch(t)
    \/ \E u \in Users : ListFiles(u)
    \/ \E u \in Users : DeleteAllFiles(u)
    \/ DeleteAllBlobs
    \/ \E u \in Users, id \in Ids : GetFileById(u, id)
    \/ \E u \in Users, id \in Ids : GetFileDataContentById(u, id)
    \/ \E u \in Users, id \in Ids, c \in Contents :
          UpdateFileDataContentById(u, id, c)
    \/ \E u \in Users, id \in Ids : GetFileContentById(u, id)
    \/ \E u \in Users, id \in Ids : GetHtmlFileContentById(u, id)
    \/ \E u \in Users, id \in Ids : GetFileContentByName(u, id)
    \/ \E u \in Users, id \in Ids : DeleteFileById(u, id)
    \/ DeleteRecord
    \/ DeleteBlob
    \/ \E t \in Threads : UploadReturn(t)
    \/ LoopReturn

Spec == Init /\ [][Next]_vars

----------------------------------------------------------------------------
\* Properties

RegistryIds == {f.id : f \in registry}

IdOps == {"get", "data_content", "update", "content", "content_html",
          "content_name", "delete"}

\* the request that arrives in this step is for a record that exists, is
\* owned by somebody else, and the caller is no admin
StrangerArrives ==
    /\ ev.pc = "idle" /\ ev'.pc # "idle"
    /\ ev'.op \in IdOps
    /\ Role(ev'.user) # "admin"
    /\ \E f \in registry : f.id = ev'.id /\ f.user_id # ev'.user

\* what every {id} handler answers for an identifier the registry does not hold
AnswerForUnknownId(op, user, id) ==
    [pc |-> "done", op |-> op, user |-> user, id |-> id, file |-> {},
     calls |-> {"Files.get_file_by_id"}, result |-> "none", gone |-> {},
     thrown |-> FALSE, status |-> 404, files |-> {}, content |-> NoContent]

\* C1: a caller who is neither the owner nor an admin gets, from every {id}
\* endpoint, the 404 response of a nonexistent id, in one step that calls
\* nothing but the lookup and leaves registry and blob storage as they were.
C1_StrangerGetsNotFound ==
    [][StrangerArrives =>
         /\ ev' = AnswerForUnknownId(ev'.op, ev'.user, ev'.id)
         /\ UNCHANGED <<registry, blobs>>]_vars

C1_Witness ==
    /\ ev.pc = "done" /\ ev.op = "delete" /\ ev.status = 404
    /\ Role(ev.user) # "admin"
    /\ \E f \in registry : f.id = ev.id /\ f.user_id # ev.user /\ f.path \in blobs

\* C2: an upload whose blob write or registry insert failed is answered with
\* a 500-class status.
C2_UploadFailureIs500 ==
    \A t \in Threads :
        (up[t].pc = "done" /\ up[t].failed \in {"storage", "insert"})
            => up[t].status \in 500..599

\* C3 as stated: after a processor failure the upload answers 200 with a
\* non-empty error field holding the failure's message, and the handler
\* has not changed the stored record.
C3_Original ==
    [][\A t \in Threads :
         (up[t].pc = "inserted" /\ up'[t].failed = "process")
            => /\ up'[t].pc = "done"
               /\ up'[t].status = 200
               /\ up'[t].annotated
               /\ up'[t].error # ""
               /\ up'[t].error = (IF up'[t].failure.hasDetail
                                  THEN up'[t].failure.detail
                                  ELSE up'[t].failure.text)
               /\ up'[t].item = up[t].item
               /\ UNCHANGED <<registry, blobs>>]_vars

\* C3 amended: after a processor failure the upload answers 200 with the
\* inserted record plus an error field equal to the failure's message (its
\* detail when it has one, else its text; empty when that message is empty),
\* and the step leaves the registry and the blob storage unchanged.
C3_ProcessorFailureAnnotated ==
    [][\A t \in Threads :
         (up[t].pc = "inserted" /\ up'[t].failed = "process")
            => /\ up'[t].pc = "done"
               /\ up'[t].status = 200
               /\ up'[t].annotated
               /\ up'[t].error = (IF up'[t].failure.hasDetail
                                  THEN up'[t].failure.detail
                                  ELSE up'[t].failure.text)
               /\ up'[t].item = up[t].item
               /\ UNCHANGED <<registry, blobs>>]_vars

C3_Witness ==
    \E t \in Threads :
        /\ up[t].pc = "done" /\ up[t].failed = "process"
        /\ up[t].failure.hasDetail /\ up[t].error = "unsupported"
        /\ \E f \in registry : f.id = up[t].id /\ f.content = NoContent

\* C4: after a DELETE /{id} answered with success, neither the record nor
\* the blob the upload wrote at the record's path remains.
C4_DeleteRemovesRecordAndBlob ==
    (ev.pc = "done" /\ ev.op = "delete" /\ ev.status = 200)
        => /\ ev.id \notin RegistryIds
           /\ \A f \in ev.file : f.path \notin blobs

DownloadOps == {"content", "content_html", "content_name"}

\* C5: for an authorized caller every download endpoint answers 200 when a
\* file is present at the record's path and 404 when none is.
C5_DownloadOr404 ==
    (ev.pc = "done" /\ ev.op \in DownloadOps /\ ev.file # {})
        => \A f \in ev.file :
              ev.status = IF f.path \in blobs THEN 200 ELSE 404

\* C6: all records ever created by upload have pairwise distinct identifiers
\* and pairwise distinct storage paths, and no step changes the identifier
\* or the path of a record the registry already holds.
C6_DistinctAndImmutable ==
    [][/\ \A a, b \in created' :
            a # b => (a.id # b.id /\ a.path # b.path)
       /\ \A a, b \in registry' :
            a # b => (a.id # b.id /\ a.path # b.path)
       /\ \A f \in registry, g \in registry' :
            (g.id = f.id \/ g.path = f.path)
                => (g.id = f.id /\ g.path = f.path)]_vars

C6_Witness ==
    \E f, g \in registry :
        /\ f.id # g.id /\ f.filename = g.filename /\ f.path # g.path
        /\ f.content = Extracted /\ Cardinality(created) = 2

DeleteOps == {"delete", "delete_all"}
StorageDeletes == {"Storage.delete_file", "Storage.delete_all_files"}

\* C7: in both delete handlers the blob deletion is attempted only after the
\* registry deletion has reported success; a reported failure is answered
\* 400 in that same step with registry and blobs unchanged; and when the
\* blob deletion throws the answer is 400, the registry deletion had
\* succeeded and the records it deleted are gone from the registry.
C7_RegistryFirst ==
    [][(ev'.op \in DeleteOps) =>
         /\ (ev'.calls \cap StorageDeletes # {} /\ ev' # ev)
               => (ev.result = "ok" /\ ev.calls \cap StorageDeletes = {})
         /\ (ev'.result = "failed" /\ ev' # ev)
               => /\ ev'.pc = "done" /\ ev'.status = 400
                  /\ ev'.calls \cap StorageDeletes = {}
                  /\ UNCHANGED <<registry, blobs>>
         /\ ev'.thrown
               => /\ ev'.pc = "done" /\ ev'.status = 400
                  /\ ev'.result = "ok"
                  /\ ev'.gone \cap {f.id : f \in registry'} = {}]_vars

C7_Witness ==
    /\ ev.pc = "done" /\ ev.op = "delete_all" /\ ev.status = 400
    /\ ev.thrown /\ ev.result = "ok" /\ ev.gone # {}
    /\ "Storage.delete_all_files" \in ev.calls
    /\ blobs # {}

\* C8: the list handler answers an admin with every record of the registry
\* and anybody else with exactly the records they own, and changes nothing.
C8_ListOwnOrAll ==
    [][(ev.pc = "idle" /\ ev'.op = "list") =>
         /\ ev'.pc = "done" /\ ev'.status = 200
         /\ ev'.files = IF Role(ev'.user) = "admin" THEN registry
                        ELSE {f \in registry : f.user_id = ev'.user}
         /\ UNCHANGED <<registry, blobs, up>>]_vars

C8_Witness ==
    /\ ev.pc = "done" /\ ev.op = "list" /\ Role(ev.user) # "admin"
    /\ ev.files # {}
    /\ \E f \in registry : f.user_id # ev.user

\* C9: a DELETE /{id} by a non-admin caller never removes the blob of a
\* record that another user owns.
C9_DeleteSparesOthersBlobs ==
    [][(ev.op = "delete" /\ Role(ev.user) # "admin") =>
         \A k \in blobs \ blobs' :
            ~ \E f \in registry : f.path = k /\ f.user_id # ev.user]_vars

\* C10: every record in the registry has its blob in storage at its path.
C10_RecordHasBlob == \A f \in registry : f.path \in blobs

====
